---- MODULE Spec2Model ----
(***************************************************************************)
(* Dialogue-state tracker and query expansion of src/app.py.               *)
(*                                                                         *)
(* Texts are TLA+ strings handled character by character (Len, SubSeq,     *)
(* \o), so that the substring, prefix and token tests of the detectors are *)
(* computed the way Python computes them.  A ContextFrame is an object on  *)
(* a heap; DialogueState holds four references, and snapshot() returns     *)
(* references too (vars(obj) is the object's own __dict__).  Confidence is *)
(* a fixed-point number: One stands for 1.0.                               *)
(***************************************************************************)
EXTENDS Integers, Sequences, FiniteSets, TLC

(***************************************************************************)
(* Python values                                                           *)
(***************************************************************************)
None == "<none>"

Truthy(v) == v # None /\ v # ""

(***************************************************************************)
(* Python string operations                                                *)
(***************************************************************************)
UpperChars == "ABCDEFGHIJKLMNOPQRSTUVWXYZ"

LowerChars == "abcdefghijklmnopqrstuvwxyz"

CharAt(t, i) == SubSeq(t, i, i)

IsUpper(c) == \E i \in 1..26 : CharAt(UpperChars, i) = c

IsLower(c) == \E i \in 1..26 : CharAt(LowerChars, i) = c

IsCased(c) == IsUpper(c) \/ IsLower(c)

IsSpace(c) == c = " "

ToLower(c) ==
  IF IsUpper(c)
    THEN CharAt(LowerChars, CHOOSE i \in 1..26 : CharAt(UpperChars, i) = c)
    ELSE c

ToUpper(c) ==
  IF IsLower(c)
    THEN CharAt(UpperChars, CHOOSE i \in 1..26 : CharAt(LowerChars, i) = c)
    ELSE c

\* the characters of t, as a sequence
Chars(t) == [i \in 1..Len(t) |-> CharAt(t, i)]

\* "".join(cs[i-1:])
RECURSIVE Join(_, _)
Join(cs, i) == IF i > Len(cs) THEN "" ELSE cs[i] \o Join(cs, i + 1)

lower(t) == Join([i \in 1..Len(t) |-> ToLower(CharAt(t, i))], 1)

\* str.title(): a cased character is upper-cased when it does not follow a
\* cased character, lower-cased when it does
title(t) ==
  Join([i \in 1..Len(t) |->
          IF i > 1 /\ IsCased(CharAt(t, i - 1))
            THEN ToLower(CharAt(t, i))
            ELSE ToUpper(CharAt(t, i))], 1)

\* x in t
Contains(t, x) ==
  \E i \in 1..(Len(t) - Len(x) + 1) : SubSeq(t, i, i + Len(x) - 1) = x

startswith(t, x) == Len(t) >= Len(x) /\ SubSeq(t, 1, Len(x)) = x

\* t.replace(c, "") for a one-character c
Remove(t, c) == Join(SelectSeq(Chars(t), LAMBDA x : x # c), 1)

\* t.strip(): from the first to the last character that is not whitespace
strip(t) ==
  LET inked == {i \in 1..Len(t) : ~IsSpace(CharAt(t, i))} IN
  IF inked = {} THEN ""
  ELSE SubSeq(t, CHOOSE i \in inked : \A j \in inked : i <= j,
                 CHOOSE i \in inked : \A j \in inked : j <= i)

\* t.split(): the maximal runs of non-whitespace characters, in order
split(t) ==
  LET starts == {i \in 1..Len(t) :
                   ~IsSpace(CharAt(t, i)) /\ (i = 1 \/ IsSpace(CharAt(t, i - 1)))}
      EndOf(i) == CHOOSE j \in i..Len(t) :
                    /\ \A k \in i..j : ~IsSpace(CharAt(t, k))
                    /\ (j = Len(t) \/ IsSpace(CharAt(t, j + 1)))
      Start(n) == CHOOSE i \in starts :
                    Cardinality({j \in starts : j <= i}) = n
  IN  [n \in 1..Cardinality(starts) |-> SubSeq(t, Start(n), EndOf(Start(n)))]

Range(s) == {s[i] : i \in DOMAIN s}

(***************************************************************************)
(* Knowledge base                                                          *)
(***************************************************************************)
COUNTRIES == <<"india", "uk", "us", "germany", "france", "australia">>

KNOWLEDGE ==
  (<<"Prime Minister", "India">> :> "Narendra Modi")
  @@ (<<"Prime Minister", "US">> :> "Joe Biden")
  @@ (<<"Prime Minister", "UK">> :> "Rishi Sunak")
  @@ (<<"Captain", "India">> :> "Rohit Sharma")
  @@ (<<"Captain", "US">> :> "Varies by team and sport.")
  @@ (<<"Captain", "UK">> :> "Depends on the team.")

DUTIES ==
  ("Prime Minister" :>
     ("Leads the government, sets national policy, chairs the cabinet, "
      \o "represents the country internationally, and oversees administration."))
  @@ ("Captain" :>
     ("Leads strategy on the field, motivates teammates, coordinates with coaches, "
      \o "and makes tactical decisions during play."))

(***************************************************************************)
(* Detectors                                                               *)
(***************************************************************************)
CHIT_CHAT_WORDS == <<"thanks", "wait", "ok", "fine">>

TOPIC_SHIFT_PHRASES == <<"now tell me", "switch to", "change topic">>

CONTEXT_TRIGGERS ==
  <<"what about", "and what about", "his", "her", "their",
    "same there", "same here", "more about", "and there">>

detect_dialogue_act(text) ==
  LET t == strip(lower(text)) IN
  IF \E i \in DOMAIN CHIT_CHAT_WORDS : Contains(t, CHIT_CHAT_WORDS[i])
    THEN "chit_chat"
  ELSE IF \E i \in DOMAIN TOPIC_SHIFT_PHRASES :
            Contains(t, TOPIC_SHIFT_PHRASES[i])
    THEN "topic_shift"
  ELSE IF \E i \in DOMAIN CONTEXT_TRIGGERS :
            \/ startswith(t, CONTEXT_TRIGGERS[i])
            \/ CONTEXT_TRIGGERS[i] \in Range(split(t))
    THEN "contextual_continuation"
  ELSE "fresh_query"

detect_role(text) ==
  LET t == lower(text) IN
  IF Contains(t, "prime minister") \/ Contains(t, "pm") THEN "Prime Minister"
  ELSE IF Contains(t, "captain") THEN "Captain"
  ELSE IF Contains(t, "coach") THEN "Coach"
  ELSE None

BLOCKED ==
  {"who", "what", "about", "is", "pm", "captain",
   "coach", "minister", "president", "leader"}

\* detect_subject without the last-word fallback
detect_subject_countries_only(text) ==
  LET t == lower(text)
      hits == {i \in DOMAIN COUNTRIES : Contains(t, COUNTRIES[i])}
  IN
  IF hits # {}
    THEN title(COUNTRIES[CHOOSE i \in hits : \A j \in hits : i <= j])
    ELSE None

detect_subject(text) ==
  LET t == lower(text)
      hits == {i \in DOMAIN COUNTRIES : Contains(t, COUNTRIES[i])}
  IN
  IF hits # {}
    THEN title(COUNTRIES[CHOOSE i \in hits : \A j \in hits : i <= j])
  ELSE LET words == split(Remove(Remove(t, "?"), "."))
       IN  IF words = <<>> THEN None
           ELSE LET candidate == title(words[Len(words)])
                IN  IF lower(candidate) \in BLOCKED THEN None ELSE candidate

detect_intent(text) ==
  LET t == lower(text) IN
  IF Contains(t, "duties") \/ Contains(t, "responsibilities") THEN "duties"
  ELSE IF Contains(t, "who") THEN "who"
  ELSE IF Contains(t, "about") THEN "info"
  ELSE None

(***************************************************************************)
(* Inputs, and the detectors' results on them (each computed once)         *)
(***************************************************************************)
Texts ==
  {"Who is the Prime Minister of India?",
   "his duties?",
   "what about that?",
   "what about the UK?",
   "what about the captain of the UK?",
   "switch to the captain of France",
   "their leader",
   "thanks"}

\* the labels of the topic classifier
Labels == {"Politics", "Sports", "Unknown"}

ActOf == [t \in Texts |-> detect_dialogue_act(t)]

RoleOf == [t \in Texts |-> detect_role(t)]

SubjectOf == [t \in Texts |-> detect_subject(t)]

IntentOf == [t \in Texts |-> detect_intent(t)]

\* lines 130-135 of detect_subject: no country is in t, and the words of t
\* without "?" and "."
NoCountryIn ==
  [t \in Texts |->
     \A i \in DOMAIN COUNTRIES : ~Contains(lower(t), COUNTRIES[i])]

WordsIn == [t \in Texts |-> split(Remove(Remove(lower(t), "?"), "."))]

\* "what about" in t, and "duties" in t or "responsibilities" in t, for
\* t = user_text.lower()
WhatAboutIn == [t \in Texts |-> Contains(lower(t), "what about")]

DutiesIn ==
  [t \in Texts |->
     Contains(lower(t), "duties") \/ Contains(lower(t), "responsibilities")]

(***************************************************************************)
(* ContextFrame objects and the heap                                       *)
(***************************************************************************)
\* 1.0 in the fixed-point unit of confidence
One == 10^6

FACTOR_PCT == 85

THRESHOLD_PCT == 20

ContextFrame(v, c) == [value |-> v, confidence |-> c]

\* ContextFrame(): value None, confidence 0.0
EmptyFrame == ContextFrame(None, 0)

\* a heap cell holding no object
Free == ContextFrame("<free>", -1)

\* decay that never clears the value
decay_keeps_value(fr) ==
  [value |-> fr.value, confidence |-> (fr.confidence * FACTOR_PCT) \div 100]

decay(fr) ==
  LET c == (fr.confidence * FACTOR_PCT) \div 100 IN
  [value |-> IF c * 100 < THRESHOLD_PCT * One THEN None ELSE fr.value,
   confidence |-> c]

Slots == {"domain", "subject", "role", "intent"}

Dependents == {"subject", "role", "intent"}

\* room for the frames of one DialogueState and of one snapshot of an older one
FrameIds == 1..(2 * Cardinality(Slots))

\* DialogueState(): four fresh frames
NewState == [domain |-> 1, subject |-> 2, role |-> 3, intent |-> 4]

NewHeap == [i \in FrameIds |-> IF i <= 4 THEN EmptyFrame ELSE Free]

\* m = [heap, st, ext]: the heap, the DialogueState's four references, and the
\* frames referenced from outside the DialogueState
Val(m, slot) == m.heap[m.st[slot]].value

Deref(h, refs) == [s \in Slots |-> h[refs[s]]]

decay_all(m) ==
  [m EXCEPT !.heap = [i \in FrameIds |->
                        IF \E s \in Slots : m.st[s] = i THEN decay(m.heap[i])
                        ELSE m.heap[i]]]

\* vars(frame) is the frame's own attribute dict: the snapshot refers to the
\* live frames
snapshot(m) ==
  [domain |-> m.st.domain, subject |-> m.st.subject,
   role |-> m.st.role, intent |-> m.st.intent]

\* state.<slot> = ContextFrame(): the slot refers to a new object; the old one
\* lives on only while something else refers to it
Replace(m, slot) ==
  LET old == m.st[slot]
      id == IF old \notin m.ext THEN old
            ELSE CHOOSE i \in FrameIds :
                   /\ m.heap[i] = Free
                   /\ \A j \in FrameIds : m.heap[j] = Free => i <= j
  IN  [m EXCEPT !.st[slot] = id, !.heap[id] = EmptyFrame]

\* state.<slot>.value = v; state.<slot>.confidence = 1.0
Assign(m, slot, v) == [m EXCEPT !.heap[m.st[slot]] = ContextFrame(v, One)]

(***************************************************************************)
(* State update                                                            *)
(***************************************************************************)
\* if v: state.<slot>.value = v; state.<slot>.confidence = 1.0
AssignIfFound(m, slot, v) == IF Truthy(v) THEN Assign(m, slot, v) ELSE m

\* a reset that clears the values of subject, role and intent in place
clear_dependent_values(m) ==
  [m EXCEPT !.heap =
     [i \in FrameIds |->
        IF \E s \in Dependents : m.st[s] = i
          THEN [m.heap[i] EXCEPT !.value = None]
          ELSE m.heap[i]]]

\* lines 176-178: subject, role and intent become fresh frames
ResetDependents(m) == Replace(Replace(Replace(m, "subject"), "role"), "intent")

\* lines 180-198: run the detectors and assign what they found
ApplyDetected(text, new_domain, m) ==
  AssignIfFound(
    AssignIfFound(
      AssignIfFound(
        AssignIfFound(m, "domain", new_domain),
        "subject", SubjectOf[text]),
      "role", RoleOf[text]),
    "intent", IntentOf[text])

\* lines 169-172: "Unknown" counts as no domain
Resolved(pred) == IF pred = "Unknown" THEN None ELSE pred

\* update_state_from_text that never resets the dependent frames
update_state_without_reset(text, pred, m) ==
  ApplyDetected(text, Resolved(pred), m)

\* update_state_from_text that resets on every detected domain, changed or not
update_state_reset_on_any_domain(text, pred, m) ==
  ApplyDetected(text, Resolved(pred),
                IF Truthy(Resolved(pred)) THEN ResetDependents(m) ELSE m)

\* update_state_from_text that assigns every slot, found or not
update_state_assigning_unconditionally(text, pred, m) ==
  Assign(
    Assign(
      Assign(
        AssignIfFound(
          IF Truthy(Resolved(pred)) /\ Resolved(pred) # Val(m, "domain")
            THEN ResetDependents(m)
            ELSE m,
          "domain", Resolved(pred)),
        "subject", SubjectOf[text]),
      "role", RoleOf[text]),
    "intent", IntentOf[text])

\* update_state_from_text that takes the label "Unknown" for a domain
update_state_keeping_unknown(text, pred, m) ==
  ApplyDetected(text, pred,
                IF Truthy(pred) /\ pred # Val(m, "domain")
                  THEN ResetDependents(m)
                  ELSE m)

\* update_state_from_text that resets only when a domain is already held
update_state_reset_only_from_held_domain(text, pred, m) ==
  ApplyDetected(text, Resolved(pred),
                IF Truthy(Resolved(pred)) /\ Truthy(Val(m, "domain"))
                     /\ Resolved(pred) # Val(m, "domain")
                  THEN ResetDependents(m)
                  ELSE m)

\* pred is predict_topic(text), the label of the external classifier
update_state_from_text(text, pred, m) ==
  ApplyDetected(text, Resolved(pred),
                IF Truthy(Resolved(pred)) /\ Resolved(pred) # Val(m, "domain")
                  THEN ResetDependents(m)
                  ELSE m)

(***************************************************************************)
(* Expansion                                                               *)
(***************************************************************************)
WhoIs(role, subject) == "Who is the " \o role \o " of " \o subject \o "?"

TellMeMoreAbout(subject) == "Tell me more about " \o subject \o "."

DutiesOf(role, subject) ==
  "What are the duties of the " \o role \o " of " \o subject \o "?"

TellMeMoreAboutThe(role, subject) ==
  "Tell me more about the " \o role \o " of " \o subject \o "."

\* the pair (expanded, note) that expand_query returns
Rewrite(user_text, role, subject, act) ==
  IF act # "contextual_continuation" THEN <<None, None>>
  ELSE IF ~Truthy(role) /\ ~Truthy(subject)
    THEN <<None, "clarify: not enough context">>
  ELSE IF WhatAboutIn[user_text]
    THEN LET new_subject == SubjectOf[user_text] IN
         IF Truthy(new_subject)
           THEN IF Truthy(role)
                  THEN <<WhoIs(role, new_subject), None>>
                  ELSE <<TellMeMoreAbout(new_subject), None>>
         ELSE IF Truthy(role) /\ Truthy(subject)
           THEN <<WhoIs(role, subject), None>>
         ELSE <<None, "clarify: what exactly do you mean?">>
  ELSE IF DutiesIn[user_text]
    THEN IF Truthy(role) /\ Truthy(subject)
           THEN <<DutiesOf(role, subject), None>>
           ELSE <<None, "clarify: whose duties?">>
  ELSE IF Truthy(role) /\ Truthy(subject)
    THEN <<TellMeMoreAboutThe(role, subject), None>>
  ELSE <<None, "clarify: cannot infer expansion">>

\* what a call of expand_query leaves: the object graph, and its result
Expansion(m, pair) == [m |-> m, expanded |-> pair[1], note |-> pair[2]]

\* expand_query that stores the subject of a "what about" follow-up
expand_query_storing_subject(user_text, m, act) ==
  Expansion(IF act = "contextual_continuation" /\ WhatAboutIn[user_text]
                 /\ Truthy(SubjectOf[user_text])
              THEN Assign(m, "subject", SubjectOf[user_text])
              ELSE m,
            Rewrite(user_text, Val(m, "role"), Val(m, "subject"), act))

\* expand_query that returns no note when neither role nor subject is held
expand_query_silent_without_context(user_text, m, act) ==
  Expansion(m, IF ~Truthy(Val(m, "role")) /\ ~Truthy(Val(m, "subject"))
                 THEN <<None, None>>
                 ELSE Rewrite(user_text, Val(m, "role"), Val(m, "subject"), act))

\* expand_query that does not read the role frame
expand_query_ignoring_role(user_text, m, act) ==
  Expansion(m, Rewrite(user_text, None, Val(m, "subject"), act))

\* the function has no statement that writes to state: the object graph it
\* leaves is the one it was given
expand_query(user_text, m, act) ==
  Expansion(m, Rewrite(user_text, Val(m, "role"), Val(m, "subject"), act))

(***************************************************************************)
(* Answer and topic                                                        *)
(***************************************************************************)
\* the values the role and subject frames can hold, and the texts expand_query
\* can build from them
RoleValues == {RoleOf[t] : t \in Texts} \ {None}

SubjectValues == {SubjectOf[t] : t \in Texts} \ {None}

Expansions ==
  {""}
  \cup {WhoIs(r, s) : r \in RoleValues, s \in SubjectValues}
  \cup {TellMeMoreAbout(s) : s \in SubjectValues}
  \cup {DutiesOf(r, s) : r \in RoleValues, s \in SubjectValues}
  \cup {TellMeMoreAboutThe(r, s) : r \in RoleValues, s \in SubjectValues}

\* "duties" in text.lower(), computed once for each such text
AsksDuties == [e \in Expansions |-> Contains(lower(e), "duties")]

\* lines 254-265, for text = expanded or ""
AnswerFor(text, role, subject) ==
  IF AsksDuties[text]
    THEN IF role \in DOMAIN DUTIES THEN DUTIES[role]
         ELSE "I don't have role responsibilities for this case yet."
  ELSE IF Truthy(role) /\ Truthy(subject)
          /\ <<role, subject>> \in DOMAIN KNOWLEDGE
    THEN KNOWLEDGE[<<role, subject>>]
  ELSE IF Truthy(role) /\ Truthy(subject)
    THEN "I don't have the exact answer for " \o role \o " of " \o subject
           \o " yet."
  ELSE None

answer(expanded, m) ==
  AnswerFor(IF Truthy(expanded) THEN expanded ELSE "",
            Val(m, "role"), Val(m, "subject"))

\* assign_topic with each component defaulted on its own
assign_topic_independent(text, m) ==
  <<IF Truthy(Val(m, "domain")) THEN Val(m, "domain") ELSE "General",
    IF Truthy(Val(m, "subject")) THEN Val(m, "subject") ELSE "NA">>

assign_topic(text, m) ==
  IF Truthy(Val(m, "domain"))
    THEN <<Val(m, "domain"),
           IF Truthy(Val(m, "subject")) THEN Val(m, "subject") ELSE "NA">>
    ELSE <<"General", "NA">>

(***************************************************************************)
(* Main loop                                                               *)
(***************************************************************************)
TurnResult(m, expanded, topic, note, ans) ==
  [m |-> m, expanded |-> expanded, topic |-> topic, note |-> note,
   ans |-> ans, snap |-> snapshot(m)]

\* line 297: state.domain.value = prev_domain
RestoreDomain(w, prev_domain) ==
  [w EXCEPT !.heap[w.st.domain].value = prev_domain]

\* the update with the two branches of a continuation exchanged
UpdateFor_guard_inverted(user_text, pred, act, d) ==
  IF act = "contextual_continuation"
    THEN IF Truthy(pred) /\ pred # Val(d, "domain")
           THEN RestoreDomain(update_state_from_text(user_text, pred, d),
                              Val(d, "domain"))
           ELSE update_state_from_text(user_text, pred, d)
    ELSE update_state_from_text(user_text, pred, d)

\* lines 286-300: the update, by dialogue act
UpdateFor(user_text, pred, act, d) ==
  IF act = "contextual_continuation"
    THEN IF Truthy(pred) /\ pred # Val(d, "domain")
           THEN update_state_from_text(user_text, pred, d)
           ELSE RestoreDomain(update_state_from_text(user_text, pred, d),
                              Val(d, "domain"))
    ELSE update_state_from_text(user_text, pred, d)

\* lines 306-311: topic, answer, and the returned tuple, for e = what
\* expand_query left
Reply(user_text, e) ==
  TurnResult(e.m, e.expanded,
             assign_topic(IF Truthy(e.expanded) THEN e.expanded ELSE user_text,
                          e.m),
             e.note, answer(e.expanded, e.m))

\* lines 302-311, for u = the updated state
Respond(user_text, act, u) == Reply(user_text, expand_query(user_text, u, act))

\* lines 282-311, for d = the decayed state
TurnOn(user_text, pred, act, d) ==
  IF act = "chit_chat"
    THEN TurnResult(d, None, <<"General", "NA">>, "chit_chat", None)
    ELSE Respond(user_text, act, UpdateFor(user_text, pred, act, d))

\* the same, putting the previous domain back on every continuation
TurnOnAlwaysRestoring(user_text, pred, act, d) ==
  IF act = "chit_chat"
    THEN TurnResult(d, None, <<"General", "NA">>, "chit_chat", None)
  ELSE IF act = "contextual_continuation"
    THEN Respond(user_text, act,
                 RestoreDomain(update_state_from_text(user_text, pred, d),
                               Val(d, "domain")))
  ELSE Respond(user_text, act, update_state_from_text(user_text, pred, d))

\* the same, without the early return for chit-chat
TurnOnUpdatingOnChitChat(user_text, pred, act, d) ==
  IF act = "chit_chat"
    THEN TurnResult(UpdateFor(user_text, pred, act, d),
                    None, <<"General", "NA">>, "chit_chat", None)
    ELSE Respond(user_text, act, UpdateFor(user_text, pred, act, d))

\* process_turn that puts the previous domain back on every continuation
process_turn_always_restoring(user_text, pred, m) ==
  TurnOnAlwaysRestoring(user_text, pred, ActOf[user_text], decay_all(m))

\* process_turn without the early return for chit-chat
process_turn_updating_on_chit_chat(user_text, pred, m) ==
  TurnOnUpdatingOnChitChat(user_text, pred, ActOf[user_text], decay_all(m))

\* a turn result whose frames are decayed once more
DecayedResult(r) == [r EXCEPT !.m = decay_all(r.m)]

\* process_turn that decays at the end of the turn instead of at its start
process_turn_decaying_last(user_text, pred, m) ==
  DecayedResult(TurnOn(user_text, pred, ActOf[user_text], m))

\* both calls of predict_topic in one turn are on the same text and return the
\* same label pred
process_turn(user_text, pred, m) ==
  TurnOn(user_text, pred, ActOf[user_text], decay_all(m))

(***************************************************************************)
(* Session: the Streamlit script around process_turn                       *)
(***************************************************************************)
\* turns submitted per session before it is reset
MaxTurns == 4

\* the same, for the long sessions in which frames decay until they are cleared
MaxLongTurns == 12

\* the same, for the sessions in which the caller holds on to a snapshot
MaxHeldTurns == 3

\* the inputs of the long sessions
LongTexts ==
  {"Who is the Prime Minister of India?",
   "what about the UK?",
   "their leader",
   "thanks"}

VARIABLES
  heap,     \* the ContextFrame objects
  state,    \* st.session_state.state: the four frame references
  nturns,   \* len(st.session_state.conversation)
  turn,     \* st.session_state.conversation[-1], and the label predict_topic gave, if called
  before,   \* the frames when that turn began: conversation[-2]["state"], or a fresh DialogueState's
  kept,     \* a snapshot dict of an earlier turn that the caller still holds
  age,      \* per slot: turns since its latest assignment, -1 if never assigned
  replaced, \* per slot: a fresh frame took its place since that assignment
  under     \* per dependent slot: domain value at the end of the turn that assigned it

vars == <<heap, state, nturns, turn, before, kept, age, replaced, under>>

NoTurn ==
  [user |-> None, label |-> None, expanded |-> None, topic |-> <<None, None>>,
   note |-> None, answer |-> None, state |-> [s \in Slots |-> Free]]

NoSnap == [refs |-> [s \in Slots |-> 0], copy |-> [s \in Slots |-> Free]]

KeptIds == IF kept = NoSnap THEN {} ELSE {kept.refs[s] : s \in Slots}

\* the object graph process_turn works on
M == [heap |-> heap, st |-> state, ext |-> KeptIds]

\* the four frames of the DialogueState
Frames == Deref(heap, state)

\* objects nothing refers to any more are gone
Collect(h, st, ext) ==
  [i \in FrameIds |-> IF i \in ext \/ \E s \in Slots : st[s] = i THEN h[i] ELSE Free]

\* what a turn on this text, with this label, finds for each slot
Detected(text, lbl) ==
  [domain |-> Resolved(lbl),
   subject |-> SubjectOf[text],
   role |-> RoleOf[text],
   intent |-> IntentOf[text]]

Init ==
  /\ heap = NewHeap
  /\ state = NewState
  /\ nturns = 0
  /\ turn = NoTurn
  /\ before = Deref(NewHeap, NewState)
  /\ kept = NoSnap
  /\ age = [s \in Slots |-> -1]
  /\ replaced = [s \in Slots |-> FALSE]
  /\ under = [s \in Dependents |-> None]

\* a topic change: the label is a domain other than the one held after decay
Switches(lbl) ==
  Truthy(Resolved(lbl)) /\ Resolved(lbl) # decay(Frames.domain).value

\* lines 328-340: the Submit button with a non-empty input
Submit(text, lbl) ==
  /\ \E r \in {process_turn(text, lbl, M)},
        chat \in {ActOf[text] = "chit_chat"},
        det \in {Detected(text, lbl)} :
       /\ heap' = Collect(r.m.heap, r.m.st, KeptIds)
       /\ state' = r.m.st
       /\ nturns' = nturns + 1
       /\ turn' = [user |-> text, label |-> IF chat THEN None ELSE lbl,
                   expanded |-> r.expanded, topic |-> r.topic, note |-> r.note,
                   answer |-> r.ans, state |-> Deref(r.m.heap, r.snap)]
       /\ before' = Frames
       /\ age' = [s \in Slots |->
                    IF ~chat /\ Truthy(det[s]) THEN 0
                    ELSE IF age[s] >= 0 THEN age[s] + 1
                    ELSE -1]
       /\ replaced' = [s \in Slots |->
                         IF ~chat /\ Truthy(det[s]) THEN FALSE
                         ELSE IF ~chat /\ Switches(lbl) /\ s \in Dependents
                           THEN age[s] >= 0
                         ELSE replaced[s]]
       /\ under' = [s \in Dependents |->
                      IF r.m.heap[r.m.st[s]].value = None THEN None
                      ELSE IF ~chat /\ Truthy(det[s])
                        THEN r.m.heap[r.m.st.domain].value
                      ELSE under[s]]
  /\ UNCHANGED kept

\* lines 368-370: the Reset button
Reset ==
  /\ heap' = NewHeap
  /\ state' = NewState
  /\ nturns' = 0
  /\ turn' = NoTurn
  /\ before' = Deref(NewHeap, NewState)
  /\ kept' = NoSnap
  /\ age' = [s \in Slots |-> -1]
  /\ replaced' = [s \in Slots |-> FALSE]
  /\ under' = [s \in Dependents |-> None]

\* the caller keeps the dict that the latest process_turn returned as snapshot
HoldSnapshot ==
  /\ nturns > 0
  /\ kept = NoSnap
  /\ kept' = [refs |-> snapshot(M), copy |-> Deref(heap, snapshot(M))]
  /\ UNCHANGED <<heap, state, nturns, turn, before, age, replaced, under>>

Next ==
  \/ \E text \in Texts, lbl \in Labels : nturns < MaxTurns /\ Submit(text, lbl)
  \/ Reset

Spec == Init /\ [][Next]_vars

\* long sessions
LongNext ==
  \/ \E text \in LongTexts, lbl \in Labels :
        nturns < MaxLongTurns /\ Submit(text, lbl)
  \/ Reset

LongSpec == Init /\ [][LongNext]_vars

\* sessions in which the caller holds on to a returned snapshot
HeldNext ==
  \/ \E text \in Texts, lbl \in Labels :
        nturns < MaxHeldTurns /\ Submit(text, lbl)
  \/ Reset
  \/ HoldSnapshot

HeldSpec == Init /\ [][HeldNext]_vars

(***************************************************************************)
(* Notions used by the properties                                          *)
(***************************************************************************)
Acts == {"chit_chat", "topic_shift", "contextual_continuation", "fresh_query"}

\* a turn has been submitted, and it was or was not chit-chat
Turned == nturns > 0

ChitChat == Turned /\ ActOf[turn.user] = "chit_chat"

Updating == Turned /\ ActOf[turn.user] # "chit_chat"

\* what the latest turn found for each slot
Found == Detected(turn.user, turn.label)

Held(s) == Frames[s].value # None

\* the latest turn's update found a domain other than the one held after decay
TopicChanged ==
  Updating /\ Truthy(Found.domain) /\ Found.domain # decay(before.domain).value

Continuation == Updating /\ ActOf[turn.user] = "contextual_continuation"

\* the last-word rule with a minimum of three words
LastOfThree(words) ==
  IF Len(words) < 3 THEN None
  ELSE IF words[Len(words)] \in BLOCKED THEN None
  ELSE title(words[Len(words)])

LastOfThreeIn == [t \in Texts |-> LastOfThree(WordsIn[t])]

\* a DialogueState holding the frames fr, and the frames a DialogueState holds
FromFrames(fr) ==
  [heap |-> [i \in FrameIds |->
               IF i = NewState.domain THEN fr.domain
               ELSE IF i = NewState.subject THEN fr.subject
               ELSE IF i = NewState.role THEN fr.role
               ELSE IF i = NewState.intent THEN fr.intent
               ELSE Free],
   st |-> NewState, ext |-> {}]

FramesOf(m) == Deref(m.heap, m.st)

\* the frames after scenario 1: "Who is the Prime Minister of India?",
\* classified Politics, on an empty DialogueState
AfterScenario1 ==
  [domain |-> ContextFrame("Politics", One),
   subject |-> ContextFrame("India", One),
   role |-> ContextFrame("Prime Minister", One),
   intent |-> ContextFrame("who", One)]

\* 0.85^n in the unit of confidence
RECURSIVE ConfidenceAfter(_)
ConfidenceAfter(n) ==
  IF n = 0 THEN One ELSE (ConfidenceAfter(n - 1) * 85) \div 100

(***************************************************************************)
(* C1 (scenario 3): after "Who is the Prime Minister of India?" on an      *)
(* empty state, the turn "his duties?" is a contextual continuation, still *)
(* holds role "Prime Minister" and subject "India", and expands to "What   *)
(* are the duties of the Prime Minister of India?".                        *)
(* The code takes the last word of "his duties?" as the new subject.       *)
(***************************************************************************)
C1_Scenario3 ==
  (nturns = 2 /\ before = AfterScenario1 /\ turn.user = "his duties?")
    => /\ ActOf[turn.user] = "contextual_continuation"
       /\ Frames.role.value = "Prime Minister"
       /\ Frames.subject.value = "India"
       /\ turn.expanded = "What are the duties of the Prime Minister of India?"

(***************************************************************************)
(* C2 (scenario 4), as stated: on an empty state "what about that?" is a   *)
(* contextual continuation that returns no expansion and the note          *)
(* "clarify: not enough context".                                          *)
(***************************************************************************)
C2_Scenario4_AsStated ==
  (nturns = 1 /\ turn.user = "what about that?")
    => /\ ActOf[turn.user] = "contextual_continuation"
       /\ turn.expanded = None
       /\ turn.note = "clarify: not enough context"

(***************************************************************************)
(* C2, amended: on an empty state "what about that?" is a contextual       *)
(* continuation; the update assigns its last word as subject "That" before *)
(* the expansion is computed, so the turn returns the expansion "Tell me   *)
(* more about That." and no note.                                          *)
(***************************************************************************)
C2_Scenario4 ==
  (nturns = 1 /\ turn.user = "what about that?")
    => /\ ActOf[turn.user] = "contextual_continuation"
       /\ Frames.subject = ContextFrame("That", One)
       /\ Frames.role.value = None
       /\ turn.expanded = "Tell me more about That."
       /\ turn.note = None

C2_Witness == nturns = 1 /\ turn.user = "what about that?"

(***************************************************************************)
(* C3: the contents of a snapshot returned by process_turn never change,   *)
(* whatever turns follow on the same DialogueState.                        *)
(* The code returns the frames' own attribute dicts.                       *)
(***************************************************************************)
C3_SnapshotIsCopy ==
  kept # NoSnap => Deref(heap, kept.refs) = kept.copy

(***************************************************************************)
(* C4, as stated: after every turn that is not chit-chat the topic is      *)
(* (domain.value or "General", subject.value or "NA"), each component      *)
(* defaulted on its own.                                                   *)
(***************************************************************************)
C4_Topic_AsStated ==
  Updating =>
    turn.topic = <<IF Held("domain") THEN Frames.domain.value ELSE "General",
                   IF Held("subject") THEN Frames.subject.value ELSE "NA">>

(***************************************************************************)
(* C4, amended: after every turn that is not chit-chat the topic is        *)
(* (domain.value, subject.value or "NA") when a domain is held, and        *)
(* ("General", "NA") when none is held, whether or not a subject is held.  *)
(***************************************************************************)
C4_Topic ==
  Updating =>
    turn.topic = IF Held("domain")
                   THEN <<Frames.domain.value,
                          IF Held("subject") THEN Frames.subject.value ELSE "NA">>
                   ELSE <<"General", "NA">>

C4_Witness ==
  Updating /\ ~Held("domain") /\ Held("subject") /\ turn.topic = <<"General", "NA">>

(***************************************************************************)
(* C5, as stated: n turns after its assignment, without reassignment, a    *)
(* frame has confidence 0.85^n; its value is kept for n <= 9 and is none   *)
(* for n >= 10.                                                            *)
(***************************************************************************)
C5_Decay_AsStated ==
  \A s \in Slots :
    age[s] >= 0 =>
      /\ Frames[s].confidence = ConfidenceAfter(age[s])
      /\ age[s] <= 9 => Held(s)
      /\ age[s] >= 10 => ~Held(s)

(***************************************************************************)
(* C5, amended: n turns after its assignment, without reassignment and     *)
(* without a topic change putting a fresh frame in its place, a frame has  *)
(* confidence 0.85^n; its value is kept for n <= 9 and is none for         *)
(* n >= 10.  A frame that was cleared by decay or replaced by a fresh      *)
(* frame holds none until it is reassigned.                                *)
(***************************************************************************)
C5_Decay ==
  \A s \in Slots :
    /\ (age[s] >= 0 /\ ~replaced[s]) =>
         /\ Frames[s].confidence = ConfidenceAfter(age[s])
         /\ age[s] <= 9 => Held(s)
         /\ age[s] >= 10 => ~Held(s)
    /\ (age[s] >= 10 \/ replaced[s]) => ~Held(s)

C5_Witness ==
  /\ age.domain = 11 /\ ~Held("domain")
  /\ age.role = 10 /\ ~replaced.role /\ ~Held("role")
  /\ before.role.value = "Prime Minister"
  /\ Frames.role.confidence = ConfidenceAfter(10)
  /\ age.subject = 9 /\ ~replaced.subject /\ Frames.subject.value = "Uk"

(***************************************************************************)
(* C6: whenever a domain is held, every held subject, role and intent was  *)
(* assigned in a turn that ended with the domain at its present value.     *)
(***************************************************************************)
C6_NoLeak ==
  Held("domain") =>
    \A s \in Dependents : Held(s) => under[s] = Frames.domain.value

C6_Witness ==
  /\ nturns >= 2
  /\ before.domain.value = "Politics" /\ before.role.value = "Prime Minister"
  /\ Frames.domain.value = "Sports"
  /\ Held("role") /\ under.role = "Sports"

(***************************************************************************)
(* C7: when the update resolves the domain that is held, subject, role and *)
(* intent are not replaced: each is the frame it was (decayed by the       *)
(* turn), unless the utterance itself yields a value for it.               *)
(***************************************************************************)
C7_SameDomainKeeps ==
  (Updating /\ Found.domain = decay(before.domain).value) =>
    \A s \in Dependents :
      Frames[s] = IF Truthy(Found[s]) THEN ContextFrame(Found[s], One)
                  ELSE decay(before[s])

C7_Witness ==
  /\ Updating /\ Found.domain = "Politics"
  /\ before.domain.value = "Politics"
  /\ before.role.value = "Prime Minister" /\ ~Truthy(Found.role)
  /\ Frames.role.value = "Prime Minister"

(***************************************************************************)
(* C8 (scenario 6): on a turn that is not chit-chat, with a domain D held  *)
(* and a label D' that is a domain other than D, the turn ends with domain *)
(* D' at confidence 1.0 and with each of subject, role, intent either the  *)
(* value found in this utterance at confidence 1.0 or an empty frame.      *)
(***************************************************************************)
C8_SwitchResets ==
  (Updating /\ Truthy(before.domain.value)
     /\ Truthy(Found.domain) /\ Found.domain # before.domain.value) =>
    /\ Frames.domain = ContextFrame(Found.domain, One)
    /\ \A s \in Dependents :
         Frames[s] = IF Truthy(Found[s]) THEN ContextFrame(Found[s], One)
                     ELSE EmptyFrame

C8_Witness ==
  /\ Updating /\ ActOf[turn.user] = "contextual_continuation"
  /\ before.domain.value = "Sports" /\ Found.domain = "Politics"
  /\ before.role.value = "Captain" /\ Frames.role = EmptyFrame
  /\ Frames.subject = ContextFrame("Uk", One)

(***************************************************************************)
(* C9: a chit-chat turn returns no expansion, topic ("General", "NA"),     *)
(* note "chit_chat" and no answer, and leaves each frame as it was but for *)
(* one decay step.                                                         *)
(***************************************************************************)
C9_ChitChat ==
  ChitChat =>
    /\ turn.expanded = None
    /\ turn.topic = <<"General", "NA">>
    /\ turn.note = "chit_chat"
    /\ turn.answer = None
    /\ Frames = [s \in Slots |-> decay(before[s])]
    /\ turn.state = Frames

C9_Witness ==
  /\ ChitChat
  /\ before.domain.value = "Politics"
  /\ Frames.domain.value = "Politics" /\ Frames.role.value = "Prime Minister"
  /\ Frames.subject.value = "India"

(***************************************************************************)
(* C10: expand_query leaves the object graph it is given as it is: the     *)
(* four references and every frame's value and confidence, for every text  *)
(* and dialogue act.                                                       *)
(***************************************************************************)
C10_ExpandIsPure ==
  \A text \in Texts, act \in Acts : expand_query(text, M, act).m = M

C10_Witness ==
  /\ Held("role") /\ Held("subject")
  /\ \E text \in Texts :
       /\ Truthy(SubjectOf[text]) /\ SubjectOf[text] # Frames.subject.value
       /\ expand_query(text, M, "contextual_continuation").expanded
            = WhoIs(Frames.role.value, SubjectOf[text])

(***************************************************************************)
(* C11 (scenario 2), as stated: when a role R is held and a contextual     *)
(* continuation containing "what about" names a subject S, without a topic *)
(* change, the turn returns "Who is the R of S?" with no note, the role    *)
(* frame is the one it was, decayed once, and the subject frame is S at    *)
(* confidence 1.0.                                                         *)
(***************************************************************************)
C11_SubjectPivot_AsStated ==
  (Continuation /\ WhatAboutIn[turn.user] /\ Truthy(Found.subject)
     /\ Truthy(decay(before.role).value) /\ ~TopicChanged) =>
    /\ turn.expanded = WhoIs(decay(before.role).value, Found.subject)
    /\ turn.note = None
    /\ Frames.role = decay(before.role)
    /\ Frames.subject = ContextFrame(Found.subject, One)

(***************************************************************************)
(* C11, amended: the same, for an utterance that names no role itself.  An *)
(* utterance that names a role R' has the role frame reassigned to R' at   *)
(* confidence 1.0 and returns "Who is the R' of S?".                       *)
(***************************************************************************)
C11_SubjectPivot ==
  (Continuation /\ WhatAboutIn[turn.user] /\ Truthy(Found.subject)
     /\ Truthy(decay(before.role).value) /\ ~TopicChanged) =>
    /\ turn.note = None
    /\ Frames.subject = ContextFrame(Found.subject, One)
    /\ ~Truthy(Found.role) =>
         /\ turn.expanded = WhoIs(decay(before.role).value, Found.subject)
         /\ Frames.role = decay(before.role)
    /\ Truthy(Found.role) =>
         /\ turn.expanded = WhoIs(Found.role, Found.subject)
         /\ Frames.role = ContextFrame(Found.role, One)

C11_Witness ==
  /\ nturns = 2 /\ before = AfterScenario1 /\ ~TopicChanged
  /\ turn.user = "what about the UK?"
  /\ turn.expanded = "Who is the Prime Minister of Uk?"
  /\ Frames.role = decay(AfterScenario1.role)
  /\ Frames.subject = ContextFrame("Uk", One)

(***************************************************************************)
(* C12: every turn returns a result; on a contextual continuation exactly  *)
(* one of the expansion and the note is not none, and a turn without       *)
(* expansion carries a note that starts with "clarify: "; on a fresh query *)
(* or a topic shift both are none.                                         *)
(***************************************************************************)
C12_NoteOrExpansion ==
  Updating =>
    IF ActOf[turn.user] = "contextual_continuation"
      THEN /\ (turn.expanded # None) # (turn.note # None)
           /\ turn.expanded # ""
           /\ turn.expanded = None => startswith(turn.note, "clarify: ")
      ELSE turn.expanded = None /\ turn.note = None

C12_Witness ==
  /\ Continuation /\ Held("subject") /\ ~Held("role")
  /\ turn.expanded = None
  /\ turn.note = "clarify: cannot infer expansion"

(***************************************************************************)
(* C13, as stated: the update replaces subject, role and intent by fresh   *)
(* frames only when a domain is held before the update and the resolved    *)
(* domain is another domain; when no domain is held (never assigned, or    *)
(* cleared by decay) a detected domain leaves the held subject, role and   *)
(* intent in place.                                                        *)
(***************************************************************************)
C13_ResetOnlyOnChange_AsStated ==
  (Updating /\ ~(Truthy(decay(before.domain).value) /\ TopicChanged)) =>
    \A s \in Dependents :
      Frames[s] = IF Truthy(Found[s]) THEN ContextFrame(Found[s], One)
                  ELSE decay(before[s])

(***************************************************************************)
(* C13, amended: the update replaces subject, role and intent by fresh     *)
(* frames exactly when the resolved domain is a domain other than the      *)
(* value the domain frame holds before the update, none included: a first  *)
(* domain assignment, and the detection of a domain after the domain frame *)
(* was cleared by decay, discard the held subject, role and intent too.    *)
(***************************************************************************)
C13_ResetOnlyOnChange ==
  Updating =>
    \A s \in Dependents :
      Frames[s] = IF Truthy(Found[s]) THEN ContextFrame(Found[s], One)
                  ELSE IF TopicChanged THEN EmptyFrame
                  ELSE decay(before[s])

C13_Witness ==
  /\ TopicChanged
  /\ before.domain.value = "Politics" /\ decay(before.domain).value = None
  /\ Found.domain = "Politics"
  /\ decay(before.subject).value = "Uk" /\ ~Truthy(Found.subject)
  /\ Frames.subject = EmptyFrame

(***************************************************************************)
(* C14: every turn, chit-chat included, decays each of the four frames     *)
(* once, before anything else: a frame the turn assigns ends the turn with *)
(* the found value at confidence 1.0, a frame the turn replaces ends it    *)
(* empty, and every other frame ends it as it began but for one decay      *)
(* step.                                                                   *)
(***************************************************************************)
C14_DecayOncePerTurn ==
  Turned =>
    \A s \in Slots :
      Frames[s] = IF Updating /\ Truthy(Found[s])
                    THEN ContextFrame(Found[s], One)
                  ELSE IF TopicChanged /\ s \in Dependents THEN EmptyFrame
                  ELSE decay(before[s])

C14_Witness ==
  /\ Updating /\ nturns = 3
  /\ Frames.subject = ContextFrame("Uk", One)
  /\ before.role = ContextFrame("Prime Minister", ConfidenceAfter(1))
  /\ Frames.role = ContextFrame("Prime Minister", ConfidenceAfter(2))

(***************************************************************************)
(* C15: on a contextual continuation whose label is "Unknown" or is the    *)
(* domain held after the turn's decay, the domain value at the end of the  *)
(* turn is the one held after the decay.                                   *)
(***************************************************************************)
C15_DomainPersists ==
  (Continuation
     /\ (turn.label = "Unknown" \/ turn.label = decay(before.domain).value)) =>
    Frames.domain.value = decay(before.domain).value

C15_Witness ==
  /\ Continuation /\ turn.label = "Unknown"
  /\ before.domain = ContextFrame("Politics", One)
  /\ Frames.domain = ContextFrame("Politics", ConfidenceAfter(1))
  /\ Frames.subject = ContextFrame("Uk", One)

(***************************************************************************)
(* C16: for an utterance that names no country, the subject found is none  *)
(* when the utterance has fewer than 3 words or its last word is blocked,  *)
(* and the title-cased last word otherwise; an utterance of one or two     *)
(* words without a country assigns no subject.                             *)
(* The code has no minimum number of words.                                *)
(***************************************************************************)
C16_ThreeWordMinimum ==
  (Updating /\ NoCountryIn[turn.user]) =>
    /\ Found.subject = LastOfThreeIn[turn.user]
    /\ Len(WordsIn[turn.user]) < 3 =>
         Frames.subject \in {decay(before.subject), EmptyFrame}

(***************************************************************************)
(* C17: in an update without topic change, each of domain, subject, role   *)
(* and intent for which the utterance yields no value keeps the value and  *)
(* confidence it had before the update, and each slot with a found value   *)
(* holds that value at confidence 1.0.                                     *)
(***************************************************************************)
C17_SlotPersistence ==
  (Updating /\ ~TopicChanged) =>
    \A s \in Slots :
      Frames[s] = IF Truthy(Found[s]) THEN ContextFrame(Found[s], One)
                  ELSE decay(before[s])

C17_Witness ==
  /\ nturns = 2 /\ before = AfterScenario1
  /\ turn.user = "his duties?" /\ turn.label = "Unknown"
  /\ Frames.domain = decay(AfterScenario1.domain)
  /\ Frames.role = decay(AfterScenario1.role)
  /\ Frames.intent = ContextFrame("duties", One)

(***************************************************************************)
(* C18: in every state reached from an empty DialogueState, each frame's   *)
(* confidence lies between 0.0 and 1.0, and the frame holds a value if and *)
(* only if its confidence is at least 0.2.                                 *)
(***************************************************************************)
C18_FrameInvariant ==
  \A s \in Slots :
    /\ 0 <= Frames[s].confidence /\ Frames[s].confidence <= One
    /\ Held(s) <=> Frames[s].confidence * 100 >= THRESHOLD_PCT * One

C18_Witness ==
  /\ Frames.domain = ContextFrame(None, ConfidenceAfter(10))
  /\ replaced.role /\ Frames.role = EmptyFrame
  /\ Held("subject") /\ Frames.subject.confidence < One

(***************************************************************************)
(* C19: with the classifier giving one label for one text, the frames a    *)
(* contextual continuation leaves, in its switch branch and in its restore *)
(* branch, are the frames that decay followed by update_state_from_text    *)
(* alone leaves on the same state, text and label.                         *)
(***************************************************************************)
C19_ContinuationIsPlainUpdate ==
  Continuation =>
    Frames = FramesOf(update_state_from_text(turn.user, turn.label,
                                             decay_all(FromFrames(before))))

C19_Witness ==
  /\ Continuation /\ turn.label = "Politics"
  /\ decay(before.domain).value = "Politics" /\ before.domain.confidence < One
  /\ Frames.domain = ContextFrame("Politics", One)
  /\ Frames.role = decay(before.role) /\ Held("role")
====
